---- MODULE Spec2Model ----
(***************************************************************************)
(* Elements of a finitely generated free graded left module over a         *)
(* connected graded algebra (sage.modules.fp_graded.free_element).         *)
(*                                                                         *)
(* The algebra and the parent module are collaborators of the element      *)
(* class.  The algebra is the connected graded GF(2)-algebra on two        *)
(* letters u (degree 1) and v (degree 5) in which u*u, v*v and every word  *)
(* of three letters vanish: its monomials are 1, u, v, uv, vu.  It is not  *)
(* commutative (u*v # v*u) and has two monomials in degree 6.              *)
(***************************************************************************)
EXTENDS Integers, Sequences, FiniteSets

\* Largest number of monomial terms of a coefficient of x and of a ring
\* element acting on x.
MaxTerms == 2
\* Largest number of item assignments the caller makes to a returned vector.
MaxWrites == 1
\* Number of generators of the parent module, FreeGradedModule(A, (0, 1)).
NumGens == 2

VARIABLES generator_degrees, x, cache, out, writes

vars == <<generator_degrees, x, cache, out, writes>>

(***************************************************************************)
(* The algebra.                                                            *)
(***************************************************************************)
\* The monomial basis in its sorting order.
MonoOrder == <<"1", "u", "v", "uv", "vu">>

Monomials == {MonoOrder[k] : k \in 1..Len(MonoOrder)}

MonoDeg == [m \in Monomials |->
              CASE m = "1"  -> 0
                [] m = "u"  -> 1
                [] m = "v"  -> 5
                [] m = "uv" -> 6
                [] m = "vu" -> 6]

\* Product of two monomials; "0" when the product vanishes.
MonoMul(m, n) ==
    CASE m = "1" -> n
      [] n = "1" -> m
      [] m = "u" /\ n = "v" -> "uv"
      [] m = "v" /\ n = "u" -> "vu"
      [] OTHER -> "0"

\* A ring element is the set of monomials that have coefficient 1 in it.
Ring == SUBSET Monomials

Zero == {}

One == {"1"}

RingAdd(a, b) == (a \ b) \cup (b \ a)

\* m * b for a monomial m: the products that do not vanish (no two of
\* them coincide, so none cancels).
MonoTimes(m, b) == {MonoMul(m, q) : q \in b} \ {"0"}

RECURSIVE MulFrom(_, _, _)
\* The sum of m * b over the monomials m of a from position k of MonoOrder on.
MulFrom(a, b, k) ==
    IF k > Len(MonoOrder)
    THEN Zero
    ELSE RingAdd(IF MonoOrder[k] \in a THEN MonoTimes(MonoOrder[k], b) ELSE Zero,
                 MulFrom(a, b, k + 1))

RingMul(a, b) == MulFrom(a, b, 1)

\* Truth value of a ring element (if c:).
RingBool(c) == c # Zero

RingIsZero(c) == c = Zero

\* c.degree(): fails when c is zero or is not homogeneous.
RingDegree(c) ==
    LET ds == {MonoDeg[m] : m \in c}
    IN  IF Cardinality(ds) = 1
        THEN [ok |-> TRUE, val |-> CHOOSE d \in ds : TRUE]
        ELSE [ok |-> FALSE, val |-> 0]

\* c.monomials(): the monomials of c, as ring elements, in sorting order.
RingMonomials(c) ==
    LET keep == SelectSeq(MonoOrder, LAMBDA m : m \in c)
    IN  [k \in 1..Len(keep) |-> {keep[k]}]

\* c.coefficients(): the non-zero scalars of c, in the same order.
RingCoefficients(c) ==
    LET keep == SelectSeq(MonoOrder, LAMBDA m : m \in c)
    IN  [k \in 1..Len(keep) |-> 1]

(***************************************************************************)
(* Elements: a dictionary from generator indices to non-zero coefficients. *)
(***************************************************************************)
\* The ring elements the model draws its inputs from.
Coeffs == {c \in Ring : Cardinality(c) <= MaxTerms}

Elements == UNION {[S -> Coeffs \ {Zero}] : S \in SUBSET (1..NumGens)}

\* The generator degrees of the parent modules the model draws x from.
ModuleChoices == {<<0, 1>>, <<0, 0>>}

Min(a, b) == IF a < b THEN a ELSE b

\* self.parent()(coeffs): the element with the given coefficient sequence.
element_constructor(coeffs) ==
    [i \in {j \in 1..Min(Len(coeffs), NumGens) : coeffs[j] # Zero} |-> coeffs[i]]

\* self.dense_coefficient_list()
dense_coefficient_list(self) ==
    [i \in 1..NumGens |-> IF i \in DOMAIN self THEN self[i] ELSE Zero]

\* The coefficient list of the base class: the non-zero coefficients only.
coefficients_sparse(self) ==
    SelectSeq(dense_coefficient_list(self), LAMBDA c : c # Zero)

coefficients(self) == dense_coefficient_list(self)

is_zero(self) == \A i \in DOMAIN self : self[i] = Zero

\* P.generator(i)
generator(i) == [j \in {i} |-> One]

\* x + y of the base class.
ModAdd(a, b) ==
    LET s(i) == RingAdd(IF i \in DOMAIN a THEN a[i] ELSE Zero,
                        IF i \in DOMAIN b THEN b[i] ELSE Zero)
    IN  [i \in {j \in 1..NumGens : s(j) # Zero} |-> s(i)]

(***************************************************************************)
(* Results of calls.                                                       *)
(***************************************************************************)
IntResult(n) == [kind |-> "int", val |-> n]

Raise(k) == [kind |-> k, val |-> 0]

NoneValue == [kind |-> "None", val |-> 0]

VectorResult(v) == [kind |-> "vector", val |-> v]

ElementResult(e) == [kind |-> "element", val |-> e]

ListResult(l) == [kind |-> "list", val |-> l]

ZeroElementError == "the zero element does not have a well-defined degree"

NonhomogeneousError == "this is a nonhomogeneous element, no well-defined degree"

EmptySequenceError == "min() arg is an empty sequence"

KeyError == "KeyError"

(***************************************************************************)
(* degree()                                                                *)
(***************************************************************************)
RECURSIVE CollectFrom(_, _, _, _)
\* The loop over zip(generator_degrees, coefficients) from position i on.
\* raised: some c.degree() raised ValueError before the loop ended.
CollectFrom(gd, cs, i, degrees) ==
    IF i > Min(Len(gd), Len(cs))
    THEN [raised |-> FALSE, degrees |-> degrees]
    ELSE IF RingBool(cs[i])
         THEN LET d == RingDegree(cs[i])
              IN  IF d.ok
                  THEN CollectFrom(gd, cs, i + 1, Append(degrees, gd[i] + d.val))
                  ELSE [raised |-> TRUE, degrees |-> degrees]
         ELSE CollectFrom(gd, cs, i + 1, degrees)

RECURSIVE CollectAllFrom(_, _, _, _)
\* The same loop without the test "if c".
CollectAllFrom(gd, cs, i, degrees) ==
    IF i > Min(Len(gd), Len(cs))
    THEN [raised |-> FALSE, degrees |-> degrees]
    ELSE LET d == RingDegree(cs[i])
         IN  IF d.ok
             THEN CollectAllFrom(gd, cs, i + 1, Append(degrees, gd[i] + d.val))
             ELSE [raised |-> TRUE, degrees |-> degrees]

collect_degrees_unfiltered(self) ==
    CollectAllFrom(generator_degrees, coefficients(self), 1, <<>>)

collect_degrees(self) ==
    CollectFrom(generator_degrees, coefficients(self), 1, <<>>)

SeqMin(s) == CHOOSE m \in {s[k] : k \in 1..Len(s)} : \A k \in 1..Len(s) : m <= s[k]

SeqMax(s) == CHOOSE m \in {s[k] : k \in 1..Len(s)} : \A k \in 1..Len(s) : m >= s[k]

\* Returns the minimum without comparing it with the maximum.
common_degree_min(degrees) ==
    IF degrees = <<>> THEN Raise(EmptySequenceError) ELSE IntResult(SeqMin(degrees))

\* Returns the maximum without comparing it with the minimum.
common_degree_max(degrees) ==
    IF degrees = <<>> THEN Raise(EmptySequenceError) ELSE IntResult(SeqMax(degrees))

\* m = min(degrees); M = max(degrees); return m if they agree.
common_degree(degrees) ==
    IF degrees = <<>>
    THEN Raise(EmptySequenceError)
    ELSE LET m == SeqMin(degrees)
             M == SeqMax(degrees)
         IN  IF m = M THEN IntResult(m) ELSE Raise(NonhomogeneousError)

\* degree() without the test for the zero element.
degree_without_zero_test(self) ==
    LET r == collect_degrees(self)
    IN  IF r.raised
        THEN Raise(NonhomogeneousError)
        ELSE common_degree(r.degrees)

\* degree() without the try/except around the loop.
degree_without_except(self) ==
    IF is_zero(self)
    THEN Raise(ZeroElementError)
    ELSE LET r == collect_degrees(self)
         IN  IF r.raised
             THEN Raise("element is not homogeneous")
             ELSE common_degree(r.degrees)

degree(self) ==
    IF is_zero(self)
    THEN Raise(ZeroElementError)
    ELSE LET r == collect_degrees(self)
         IN  IF r.raised
             THEN Raise(NonhomogeneousError)
             ELSE common_degree(r.degrees)

(***************************************************************************)
(* _lmul_ and lift_to_free                                                 *)
(***************************************************************************)
\* Multiplies every coefficient by a on the right.
lmul_right(self, a) ==
    LET cs == coefficients(self)
    IN  element_constructor([i \in 1..Len(cs) |-> RingMul(cs[i], a)])

_lmul_(self, a) ==
    LET cs == coefficients(self)
    IN  element_constructor([i \in 1..Len(cs) |-> RingMul(a, cs[i])])

lift_to_free(self) == self

(***************************************************************************)
(* The parent module: bases and vector spaces per degree.                  *)
(***************************************************************************)
\* The products monomial * generator(i) of degree n, monomials in order.
BasisOfGenerator(i, n) ==
    LET keep == SelectSeq(MonoOrder,
                          LAMBDA m : generator_degrees[i] + MonoDeg[m] = n)
    IN  [k \in 1..Len(keep) |-> [j \in {i} |-> {keep[k]}]]

RECURSIVE BasisFrom(_, _)
BasisFrom(i, n) ==
    IF i > NumGens THEN <<>> ELSE BasisOfGenerator(i, n) \o BasisFrom(i + 1, n)

\* P.basis_elements(n)
basis_elements(n) == BasisFrom(1, n)

\* P.vector_presentation(n).basis(): the standard basis of GF(2)^dim.
StandardBasis(dim) == [k \in 1..dim |-> [j \in 1..dim |-> IF j = k THEN 1 ELSE 0]]

\* P.vector_presentation(n).zero()
ZeroVector(dim) == [j \in 1..dim |-> 0]

VecAdd(v, w) == [j \in 1..Len(v) |-> (v[j] + w[j]) % 2]

ScalarVec(s, v) == [j \in 1..Len(v) |-> (s * v[j]) % 2]

\* dict(zip(keys, values))
DictZip(keys, values) ==
    LET n == Min(Len(keys), Len(values))
    IN  [e \in {keys[k] : k \in 1..n} |->
            values[CHOOSE k \in 1..n :
                      keys[k] = e /\ \A l \in 1..n : keys[l] = e => l <= k]]

(***************************************************************************)
(* vector_presentation()                                                   *)
(***************************************************************************)
\* [x for x in enumerate(coefficients) if not x[1].is_zero()]
SparseCoeffs(cs) ==
    LET idx == SelectSeq([i \in 1..Len(cs) |-> i], LAMBDA i : ~RingIsZero(cs[i]))
    IN  [k \in 1..Len(idx) |-> <<idx[k], cs[idx[k]]>>]

RECURSIVE AddTerms(_, _, _, _, _, _)
\* The inner loop over zip(coefficients, monomials) of one coefficient, from
\* term t on; acc is the vector so far or the exception raised.
AddTerms(scalars, monos, g, base_dict, t, acc) ==
    IF acc.kind # "vector" \/ t > Min(Len(scalars), Len(monos))
    THEN acc
    ELSE LET key == _lmul_(g, monos[t])
         IN  IF key \in DOMAIN base_dict
             THEN AddTerms(scalars, monos, g, base_dict, t + 1,
                      VectorResult(VecAdd(acc.val, ScalarVec(scalars[t], base_dict[key]))))
             ELSE Raise(KeyError)

RECURSIVE AddSummands(_, _, _, _)
\* The outer loop over sparse_coeffs from position s on.
AddSummands(sparse, base_dict, s, acc) ==
    IF acc.kind # "vector" \/ s > Len(sparse)
    THEN acc
    ELSE LET summand_index == sparse[s][1]
             algebra_element == sparse[s][2]
         IN  AddSummands(sparse, base_dict, s + 1,
                 AddTerms(RingCoefficients(algebra_element),
                          RingMonomials(algebra_element),
                          generator(summand_index), base_dict, 1, acc))

\* The part of vector_presentation() after the test for the zero element.
present_nonzero(self) ==
    LET d == degree(self)
    IN  IF d.kind # "int"
        THEN d
        ELSE LET bas_gen == basis_elements(d.val)
                 dim == Len(bas_gen)
                 base_dict == DictZip(bas_gen, StandardBasis(dim))
                 sparse_coeffs == SparseCoeffs(coefficients(self))
             IN  AddSummands(sparse_coeffs, base_dict, 1, VectorResult(ZeroVector(dim)))

\* vector_presentation() without the test for the zero element.
vector_presentation_without_zero_test(self) == present_nonzero(self)

\* The body of vector_presentation(), without the cache.
vector_presentation(self) ==
    IF is_zero(self) THEN NoneValue ELSE present_nonzero(self)

\* sum([c*b for (c, b) in zip(v, basis)])
RECURSIVE SumFrom(_, _, _)
SumFrom(v, basis, k) ==
    IF k > Min(Len(v), Len(basis))
    THEN element_constructor(<<>>)
    ELSE ModAdd(IF v[k] % 2 = 1 THEN basis[k] ELSE element_constructor(<<>>),
                SumFrom(v, basis, k + 1))

element_from_coordinates(v, n) == SumFrom(v, basis_elements(n), 1)

(***************************************************************************)
(* The state machine: one element x of one parent module, the cache of     *)
(* its vector_presentation method, and the outcome of the last call.       *)
(***************************************************************************)
NoCall == [op |-> "new", a |-> Zero, res |-> NoneValue]

EmptyCache == [filled |-> FALSE, res |-> NoneValue]

Init ==
    /\ generator_degrees \in ModuleChoices
    /\ x \in Elements
    /\ cache = EmptyCache
    /\ out = NoCall
    /\ writes = 0

Coefficients ==
    /\ out' = [op |-> "coefficients", a |-> Zero, res |-> ListResult(coefficients(x))]
    /\ UNCHANGED <<generator_degrees, x, cache, writes>>

Degree ==
    /\ out' = [op |-> "degree", a |-> Zero, res |-> degree(x)]
    /\ UNCHANGED <<generator_degrees, x, cache, writes>>

LiftToFree ==
    /\ out' = [op |-> "lift_to_free", a |-> Zero, res |-> ElementResult(lift_to_free(x))]
    /\ UNCHANGED <<generator_degrees, x, cache, writes>>

LMul(a) ==
    /\ out' = [op |-> "_lmul_", a |-> a, res |-> ElementResult(_lmul_(x, a))]
    /\ UNCHANGED <<generator_degrees, x, cache, writes>>

\* cached_method: a value once returned is stored on the element and the
\* stored object itself is returned by every later call; an exception is
\* not stored.
VectorPresentation ==
    /\ IF cache.filled
       THEN /\ out' = [op |-> "vector_presentation", a |-> Zero, res |-> cache.res]
            /\ UNCHANGED cache
       ELSE LET r == vector_presentation(x)
            IN  /\ out' = [op |-> "vector_presentation", a |-> Zero, res |-> r]
                /\ cache' = IF r.kind \in {"None", "vector"}
                            THEN [filled |-> TRUE, res |-> r]
                            ELSE cache
    /\ UNCHANGED <<generator_degrees, x, writes>>

\* The caller assigns v[k] = s on a vector v that vector_presentation()
\* returned: v is the object the cache holds.
SetItem(k, s) ==
    /\ cache.filled
    /\ cache.res.kind = "vector"
    /\ writes < MaxWrites
    /\ k \in 1..Len(cache.res.val)
    /\ cache' = [cache EXCEPT !.res.val[k] = s]
    /\ writes' = writes + 1
    /\ out' = [op |-> "setitem", a |-> Zero, res |-> NoneValue]
    /\ UNCHANGED <<generator_degrees, x>>

Next ==
    \/ Coefficients
    \/ Degree
    \/ LiftToFree
    \/ \E a \in Coeffs : LMul(a)
    \/ VectorPresentation
    \/ \E k \in 1..(Cardinality(Monomials) * NumGens), s \in {0, 1} : SetItem(k, s)

Spec == Init /\ [][Next]_vars

(***************************************************************************)
(* Properties.  They read the element x as the dictionary it is, not       *)
(* through coefficients().                                                 *)
(***************************************************************************)
\* The coefficient of x at generator i.
CoefficientAt(e, i) == IF i \in DOMAIN e THEN e[i] ELSE Zero

NonzeroIndices(e) == {i \in 1..NumGens : CoefficientAt(e, i) # Zero}

IsHomogeneousCoefficient(c) == Cardinality({MonoDeg[m] : m \in c}) = 1

\* The degree of a homogeneous ring element.
CoefficientDegree(c) == MonoDeg[CHOOSE m \in c : TRUE]

\* The values generator_degree[i] + c_i.degree() over the non-zero c_i.
TermDegrees(e) ==
    {generator_degrees[i] + CoefficientDegree(e[i]) : i \in NonzeroIndices(e)}

AllCoefficientsHomogeneous(e) ==
    \A i \in NonzeroIndices(e) : IsHomogeneousCoefficient(e[i])

\* C1: on an element whose coefficients are all zero, degree() fails with
\* the zero-element error and vector_presentation() returns None (it does
\* not raise).
C1_ZeroElement ==
    NonzeroIndices(x) = {} =>
        /\ out.op = "degree" => out.res = Raise(ZeroElementError)
        /\ out.op = "vector_presentation" => out.res = NoneValue

C1_Witness ==
    /\ NonzeroIndices(x) = {}
    /\ out.op = "vector_presentation"
    /\ out.res = NoneValue
    /\ cache.filled

\* C2: on a non-zero element whose non-zero coefficients are homogeneous,
\* degree() returns the common value of generator_degree[i] + c_i.degree()
\* over the non-zero coefficients when there is one, and fails with the
\* nonhomogeneous-element error when these values differ; zero
\* coefficients contribute nothing.
C2_DegreeOfTerms ==
    (/\ out.op = "degree"
     /\ NonzeroIndices(x) # {}
     /\ AllCoefficientsHomogeneous(x)) =>
        IF Cardinality(TermDegrees(x)) = 1
        THEN out.res = IntResult(CHOOSE d \in TermDegrees(x) : TRUE)
        ELSE out.res = Raise(NonhomogeneousError)

C2_Witness ==
    /\ out.op = "degree"
    /\ NonzeroIndices(x) = {2}
    /\ generator_degrees[2] = 1
    /\ out.res = IntResult(1 + CoefficientDegree(x[2]))

\* C3 as stated: an element built from coefficients of two distinct
\* homogeneous degrees makes degree() and vector_presentation() fail with
\* the nonhomogeneous error.
C3_DistinctCoefficientDegrees ==
    (/\ out.op \in {"degree", "vector_presentation"}
     /\ AllCoefficientsHomogeneous(x)
     /\ \E i, j \in NonzeroIndices(x) :
            CoefficientDegree(x[i]) # CoefficientDegree(x[j])) =>
        out.res = Raise(NonhomogeneousError)

\* C3 amended: an element with two non-zero homogeneous coefficients c_i,
\* c_j for which generator_degree[i] + c_i.degree() differs from
\* generator_degree[j] + c_j.degree() makes degree() and
\* vector_presentation() fail with the nonhomogeneous error.
C3_DistinctTermDegrees ==
    (/\ out.op \in {"degree", "vector_presentation"}
     /\ \E i, j \in NonzeroIndices(x) :
            /\ IsHomogeneousCoefficient(x[i])
            /\ IsHomogeneousCoefficient(x[j])
            /\ generator_degrees[i] + CoefficientDegree(x[i])
                   # generator_degrees[j] + CoefficientDegree(x[j])) =>
        out.res = Raise(NonhomogeneousError)

C3_Witness ==
    /\ out.op = "vector_presentation"
    /\ AllCoefficientsHomogeneous(x)
    /\ Cardinality(TermDegrees(x)) = 2
    /\ out.res = Raise(NonhomogeneousError)
    /\ ~cache.filled

\* C4: when some non-zero coefficient is not homogeneous, degree() and
\* vector_presentation() fail with the nonhomogeneous-element error,
\* wherever that coefficient stands and whatever the others are.
C4_InhomogeneousCoefficient ==
    (/\ out.op \in {"degree", "vector_presentation"}
     /\ \E i \in NonzeroIndices(x) : ~IsHomogeneousCoefficient(x[i])) =>
        out.res = Raise(NonhomogeneousError)

C4_Witness ==
    /\ out.op = "degree"
    /\ NonzeroIndices(x) = {1, 2}
    /\ IsHomogeneousCoefficient(x[1])
    /\ ~IsHomogeneousCoefficient(x[2])
    /\ out.res = Raise(NonhomogeneousError)

\* C5: whenever vector_presentation() is called on a homogeneous element x
\* of degree n, it returns a vector v, and the sum of v[k] * basis[k] over
\* basis_elements(n) equals x.
C5_RoundTrip ==
    (/\ out.op = "vector_presentation"
     /\ NonzeroIndices(x) # {}
     /\ AllCoefficientsHomogeneous(x)
     /\ Cardinality(TermDegrees(x)) = 1) =>
        /\ out.res.kind = "vector"
        /\ element_from_coordinates(out.res.val,
                                    CHOOSE d \in TermDegrees(x) : TRUE) = x

\* The element q*g0 + 1*g1 of the module with generator degrees (0, 1),
\* q of degree 6 with two monomial terms.
IsScenario ==
    /\ generator_degrees = <<0, 1>>
    /\ NonzeroIndices(x) = {1, 2}
    /\ Cardinality(x[1]) = 2
    /\ IsHomogeneousCoefficient(x[1])
    /\ CoefficientDegree(x[1]) = 6
    /\ x[2] = One

\* C6 as stated: on the scenario element degree() returns 7 and
\* vector_presentation() returns a coordinate vector.
C6_ScenarioDegreeSeven ==
    IsScenario =>
        /\ out.op = "degree" => out.res = IntResult(7)
        /\ out.op = "vector_presentation" => out.res.kind = "vector"

\* C6 amended: on the scenario element the terms have the degrees 0 + 6
\* and 1 + 0, so degree() and vector_presentation() both fail with the
\* nonhomogeneous-element error.
C6_ScenarioNonhomogeneous ==
    (IsScenario /\ out.op \in {"degree", "vector_presentation"}) =>
        out.res = Raise(NonhomogeneousError)

C6_Witness ==
    /\ IsScenario
    /\ TermDegrees(x) = {6, 1}
    /\ out.op = "degree"
    /\ out.res = Raise(NonhomogeneousError)

\* The elements monomial * generator.
MonomialElements ==
    {[j \in {i} |-> {m}] : i \in 1..NumGens, m \in Monomials}

\* The monomials as ring elements.
MonomialRing == {{m} : m \in Monomials}

\* C7: the left action is additive in both arguments: (a+b)x = ax + bx
\* and a(x+y) = ax + ay, for a the ring element that acted on x, b a
\* monomial and y a monomial times a generator.
C7_Linearity ==
    out.op = "_lmul_" =>
        /\ \A b \in MonomialRing :
               _lmul_(x, RingAdd(out.a, b)) = ModAdd(out.res.val, _lmul_(x, b))
        /\ \A y \in MonomialElements :
               _lmul_(ModAdd(x, y), out.a) = ModAdd(out.res.val, _lmul_(y, out.a))

C7_Witness ==
    /\ out.op = "_lmul_"
    /\ NonzeroIndices(x) = {2}
    /\ Cardinality(out.a) = 2
    /\ NonzeroIndices(out.res.val) = {2}

\* C8: the left action by a returns an element with as many coefficients
\* as x whose coefficient at every generator i is a * c_i (a on the left),
\* and the call leaves x unchanged.
C8_LeftAction ==
    /\ [](out.op = "_lmul_" =>
            /\ out.res.kind = "element"
            /\ Len(coefficients(out.res.val)) = Len(coefficients(x))
            /\ \A i \in 1..NumGens :
                   CoefficientAt(out.res.val, i) = RingMul(out.a, CoefficientAt(x, i)))
    /\ [][out'.op = "_lmul_" => x' = x]_vars

C8_Witness ==
    /\ out.op = "_lmul_"
    /\ out.a = {"u"}
    /\ CoefficientAt(x, 1) = {"v"}
    /\ CoefficientAt(out.res.val, 1) = {"uv"}

\* C9: every call of vector_presentation() returns what a computation
\* without the cache returns on that element.
C9_CacheTransparent ==
    out.op = "vector_presentation" => out.res = vector_presentation(x)

\* C10: degree() ends in one of three ways, an integer, the zero-element
\* error or the nonhomogeneous-element error; on a non-zero element the
\* list of degrees is not empty when its minimum and maximum are taken.
C10_ThreeOutcomes ==
    /\ out.op = "degree" =>
           out.res.kind \in {"int", ZeroElementError, NonhomogeneousError}
    /\ (~is_zero(x) /\ ~collect_degrees(x).raised) =>
           collect_degrees(x).degrees # <<>>

C10_Witness ==
    /\ out.op = "degree"
    /\ ~is_zero(x)
    /\ Len(collect_degrees(x).degrees) = 1
    /\ NonzeroIndices(x) = {1}
    /\ out.res.kind = "int"

====
